---- MODULE Spec2Model ----
(***************************************************************************)
(* Model of the GIMP Hausdorff-distance plug-ins:                          *)
(*   src/hausdorff-distance-directory.py  (batch version, "directory")     *)
(*   src/hausdorff-distance.py            (two-layer version, "single")    *)
(*                                                                         *)
(* A pixel is a pair <<x, y>> of integers.  A Python list is a sequence.   *)
(* Python's None is the empty tuple <<>>.  A float distance is carried as  *)
(* its squared integer value: sqrt is strictly increasing and exact enough *)
(* on the small integers used here that every comparison of two distances  *)
(* has the same outcome as the comparison of their squares.  float("inf")  *)
(* is Inf, a number above every squared distance of the model, and         *)
(* float("-inf") is NegInf.                                                *)
(***************************************************************************)
EXTENDS Integers, Sequences, FiniteSets, TLC

\* ------------------------------------------------------------------ bounds
\* Largest coordinate of a point handed to the distance functions.
MaxCoord == 1
\* Largest total number of points in the two lists handed to them.
MaxPoints == 3
\* Width and height of the raster of a layer, and the largest side of a
\* square outline drawn on it, for the tracing and extraction calls.
RasterW == 6
RasterH == 8
MaxSide == 4
\* The same for the connectivity calls.
ConnW == 5
ConnH == 9
ConnSide == 3
\* The same for the calls on small rasters whose outlines reach the edge.
SmallW == 4
SmallH == 4
SmallSide == 3
\* Width and height of the layers of the batch run, and the largest number of
\* image pairs found in the directory.
BatchW == 5
BatchH == 5
MaxPairs == 2

\* ---------------------------------------------------------------- values
None == <<>>
Inf == 100000
NegInf == 0 - Inf

VARIABLES
    ref_list,   \* distance functions: the first point list of the call
    dev_list,   \* distance functions: the second point list of the call
    shapes,     \* raster functions: the square outlines drawn on the layer
    layer,      \* raster functions: the layer the call reads
    ret,        \* the operation that ran and what it returned
    pc,                 \* batch run: where hausdorff_distance stands
    numbers_of_images,  \* batch run: the number of pairs counted
    index,              \* batch run: the loop variable
    csv,                \* batch run: the lines written to results.csv
    images,             \* batch run: the images loaded and not deleted
    ref_layer,          \* batch run: layer of the reference image
    dev_layer,          \* batch run: layer of the deviated image
    ref_layer_outline_pixels_positions,
    dev_layer_outline_pixels_positions,
    messages            \* batch run: what gimp.message has shown

call_vars == <<ref_list, dev_list, shapes, layer, ret>>
batch_vars == <<pc, numbers_of_images, index, csv, images, ref_layer, dev_layer,
                ref_layer_outline_pixels_positions,
                dev_layer_outline_pixels_positions, messages>>
vars == <<call_vars, batch_vars>>

NoCall == [op |-> "none"]

\* ------------------------------------------------- Hausdorff engine (code)

\* euclidean_distance, squared
euclidean_distance(point_one, point_two) ==
    (point_two[1] - point_one[1]) * (point_two[1] - point_one[1])
  + (point_two[2] - point_one[2]) * (point_two[2] - point_one[2])

\* directory version, the inner loop `for pixel_dev in dev_list` (lines 48-54):
\* returns <<minimum_distance, minimum_pixel>>
RECURSIVE directory_inner_loop(_, _, _, _, _)
directory_inner_loop(pixel_ref, dev, j, minimum_distance, minimum_pixel) ==
    IF j > Len(dev) THEN <<minimum_distance, minimum_pixel>>
    ELSE LET distance == euclidean_distance(pixel_ref, dev[j])
         IN  IF distance < minimum_distance
             THEN directory_inner_loop(pixel_ref, dev, j + 1, distance, dev[j])
             ELSE directory_inner_loop(pixel_ref, dev, j + 1,
                                       minimum_distance, minimum_pixel)

\* mutant: the update of the maximum keeps the smaller value
directory_update_maximum_lt(minimum_distance, maximum_distance) ==
    minimum_distance < maximum_distance

\* directory version, line 57: `if minimum_distance > maximum_distance`
directory_update_maximum(minimum_distance, maximum_distance) ==
    minimum_distance > maximum_distance

\* directory version, the outer loop `for index, pixel_ref in enumerate(ref_list)`
RECURSIVE directory_outer_loop(_, _, _, _, _, _)
directory_outer_loop(ref, dev, i, maximum_distance, point_one, point_two) ==
    IF i > Len(ref)
    THEN [raised |-> FALSE, distance |-> maximum_distance,
          point_one |-> point_one, point_two |-> point_two]
    ELSE LET m == directory_inner_loop(ref[i], dev, 1, Inf, None)
         IN  IF directory_update_maximum(m[1], maximum_distance)
             THEN directory_outer_loop(ref, dev, i + 1, m[1], ref[i], m[2])
             ELSE directory_outer_loop(ref, dev, i + 1, maximum_distance,
                                       point_one, point_two)

\* get_maximum_distance of hausdorff-distance-directory.py:
\* maximum_distance starts at 0.0 and both points at (0, 0)
get_maximum_distance_directory(ref, dev) ==
    directory_outer_loop(ref, dev, 1, 0, <<0, 0>>, <<0, 0>>)

\* single version, the inner loop (lines 43-50): dev_pixel is one variable of
\* the whole function, so it is threaded through: <<minimum_distance, dev_pixel>>
RECURSIVE single_inner_loop(_, _, _, _, _)
single_inner_loop(pixel_ref_list, dev, j, minimum_distance, dev_pixel) ==
    IF j > Len(dev) THEN <<minimum_distance, dev_pixel>>
    ELSE LET distance == euclidean_distance(pixel_ref_list, dev[j])
         IN  IF distance < minimum_distance
             THEN single_inner_loop(pixel_ref_list, dev, j + 1, distance, dev[j])
             ELSE single_inner_loop(pixel_ref_list, dev, j + 1,
                                    minimum_distance, dev_pixel)

\* single version, the outer loop (lines 39-55)
RECURSIVE single_outer_loop(_, _, _, _, _, _)
single_outer_loop(ref, dev, i, maximum_distance, ref_pixel, dev_pixel) ==
    IF i > Len(ref)
    THEN [raised |-> FALSE, distance |-> maximum_distance,
          point_one |-> dev_pixel, point_two |-> ref_pixel]
    ELSE LET m == single_inner_loop(ref[i], dev, 1, Inf, dev_pixel)
         IN  IF m[1] > maximum_distance
             THEN single_outer_loop(ref, dev, i + 1, m[1], ref[i], m[2])
             ELSE single_outer_loop(ref, dev, i + 1, maximum_distance,
                                    ref_pixel, m[2])

\* get_maximum_distance of hausdorff-distance.py:
\* maximum_distance starts at float("-inf"); returns (distance, dev_pixel, ref_pixel)
get_maximum_distance_single(ref, dev) ==
    single_outer_loop(ref, dev, 1, NegInf, <<0, 0>>, <<0, 0>>)

\* mutant: the comparison of the two directed distances is turned around
directory_reference_is_larger_le(ref_layer_distance, dev_layer_distance) ==
    ref_layer_distance <= dev_layer_distance

\* directory version, line 387: `if ref_layer_distance >= dev_layer_distance`
directory_reference_is_larger(ref_layer_distance, dev_layer_distance) ==
    ref_layer_distance >= dev_layer_distance

\* directory version, lines 372-392: the two directed calls and the choice of
\* the distance and of the two pairs of points handed to draw_line
hausdorff_distance_directory(ref_pixels, dev_pixels) ==
    LET r == get_maximum_distance_directory(ref_pixels, dev_pixels)
        d == get_maximum_distance_directory(dev_pixels, ref_pixels)
    IN  IF directory_reference_is_larger(r.distance, d.distance)
        THEN [distance |-> r.distance,
              target_points |-> <<r.point_one, r.point_two>>,
              other_points |-> <<d.point_one, d.point_two>>]
        ELSE [distance |-> d.distance,
              target_points |-> <<d.point_one, d.point_two>>,
              other_points |-> <<r.point_one, r.point_two>>]

\* single version, lines 176-194: `distance = max(ref_layer_distance, dev_layer_distance)`
hausdorff_distance_single(ref_pixels, dev_pixels) ==
    LET r == get_maximum_distance_single(ref_pixels, dev_pixels)
        d == get_maximum_distance_single(dev_pixels, ref_pixels)
    IN  [distance |-> IF r.distance >= d.distance THEN r.distance ELSE d.distance]

\* ---------------------------------------------------- raster layers (code)

\* The colours of the plug-in's registered defaults: the outline colour
\* (1.0, 1.0, 1.0, 1.0) and the filling colour (0.0, 0.0, 0.0, 1.0).
OutlineColor == "white"
FillColor == "black"

\* A layer is its width, its height and the set of its pixels of the outline
\* colour; every other pixel has the filling colour.  It is the layer as the
\* tracing functions read it, that is after the select / shrink / bucket-fill
\* preparation of get_outline_pixels_positions, which repaints only pixels
\* that are not on the border of a region.

\* layer.get_pixel: the colour of a pixel, or "raise" outside the raster
get_pixel(lyr, pixel) ==
    IF /\ pixel[1] \in 0 .. (lyr.width - 1)
       /\ pixel[2] \in 0 .. (lyr.height - 1)
    THEN IF pixel \in lyr.white THEN OutlineColor ELSE FillColor
    ELSE "raise"

\* Python's `x in list`
Contains(list, x) == \E i \in 1 .. Len(list) : list[i] = x

\* Python's list.remove(x): drops the first occurrence of x
list_remove(list, x) ==
    LET k == CHOOSE i \in 1 .. Len(list) :
                 list[i] = x /\ \A j \in 1 .. (i - 1) : list[j] # x
    IN  SubSeq(list, 1, k - 1) \o SubSeq(list, k + 1, Len(list))

\* `for p in target_pixels: if p == from_pixel: target_pixels.remove(p)`:
\* the list is changed while it is iterated, the index moves on regardless
RECURSIVE remove_from_pixel(_, _, _)
remove_from_pixel(target_pixels, i, from_pixel) ==
    IF i > Len(target_pixels) THEN target_pixels
    ELSE IF target_pixels[i] = from_pixel
         THEN remove_from_pixel(list_remove(target_pixels, from_pixel), i + 1, from_pixel)
         ELSE remove_from_pixel(target_pixels, i + 1, from_pixel)

\* mutant: the fourth neighbour repeats the right one (the left one is lost)
search_target_pixels_right_twice(pixel) ==
    << <<pixel[1], pixel[2] + 1>>, <<pixel[1] + 1, pixel[2]>>,
       <<pixel[1], pixel[2] - 1>>, <<pixel[1] + 1, pixel[2]>> >>

\* search_outline_pixels, lines 85-90: up, right, down, left
search_target_pixels(pixel) ==
    << <<pixel[1], pixel[2] + 1>>, <<pixel[1] + 1, pixel[2]>>,
       <<pixel[1], pixel[2] - 1>>, <<pixel[1] - 1, pixel[2]>> >>

\* search_outline_pixels (directory version).  outline_pixels is one list
\* object appended to in place, so the value returned is also the list every
\* caller goes on with.  An exception of get_pixel is caught and the
\* `finally` clause returns the list as it is.
RECURSIVE search_outline_pixels(_, _, _, _, _)
RECURSIVE search_outline_loop(_, _, _, _, _, _)
search_outline_pixels(lyr, color, pixel, from_pixel, outline_pixels) ==
    LET c == get_pixel(lyr, pixel)
    IN  IF c = "raise" THEN outline_pixels
        ELSE IF c = color
             THEN search_outline_loop(
                      lyr, color,
                      remove_from_pixel(search_target_pixels(pixel), 1, from_pixel),
                      1, pixel, Append(outline_pixels, pixel))
             ELSE outline_pixels

\* lines 98-101: `for target_pixel in target_pixels`
search_outline_loop(lyr, color, target_pixels, i, pixel, outline_pixels) ==
    IF i > Len(target_pixels) THEN outline_pixels
    ELSE IF ~Contains(outline_pixels, target_pixels[i])
         THEN search_outline_loop(
                  lyr, color, target_pixels, i + 1, pixel,
                  search_outline_pixels(lyr, color, target_pixels[i], pixel,
                                        outline_pixels))
         ELSE search_outline_loop(lyr, color, target_pixels, i + 1, pixel,
                                  outline_pixels)

\* search_pixel of hausdorff-distance.py, lines 80-85: up, right, down and
\* the entry commented "Left", which is (pixel[0] + 1, pixel[1]) again
search_pixel_target_pixels(pixel) ==
    << <<pixel[1], pixel[2] + 1>>, <<pixel[1] + 1, pixel[2]>>,
       <<pixel[1], pixel[2] - 1>>, <<pixel[1] + 1, pixel[2]>> >>

\* search_pixel (single version): as search_outline_pixels, without the
\* from_pixel; the `finally` clause returns the list in every case
RECURSIVE search_pixel(_, _, _, _)
RECURSIVE search_pixel_loop(_, _, _, _, _)
search_pixel(lyr, color, pixel, outline_pixels) ==
    LET c == get_pixel(lyr, pixel)
    IN  IF c = "raise" THEN outline_pixels
        ELSE IF c = color
             THEN search_pixel_loop(lyr, color, search_pixel_target_pixels(pixel),
                                    1, Append(outline_pixels, pixel))
             ELSE outline_pixels

\* lines 88-91: `for target_pixel in target_pixels`
search_pixel_loop(lyr, color, target_pixels, i, outline_pixels) ==
    IF i > Len(target_pixels) THEN outline_pixels
    ELSE IF ~Contains(outline_pixels, target_pixels[i])
         THEN search_pixel_loop(
                  lyr, color, target_pixels, i + 1,
                  search_pixel(lyr, color, target_pixels[i], outline_pixels))
         ELSE search_pixel_loop(lyr, color, target_pixels, i + 1, outline_pixels)

\* mutant: the fourth neighbour repeats the right one (the left one is lost)
connected_target_pixels_right_twice(pixel) ==
    << <<pixel[1], pixel[2] + 1>>, <<pixel[1] + 1, pixel[2]>>,
       <<pixel[1], pixel[2] - 1>>, <<pixel[1] + 1, pixel[2]>> >>

\* are_pixels_connected, lines 142-147: up, right, down, left
connected_target_pixels(pixel) ==
    << <<pixel[1], pixel[2] + 1>>, <<pixel[1] + 1, pixel[2]>>,
       <<pixel[1], pixel[2] - 1>>, <<pixel[1] - 1, pixel[2]>> >>

\* Python's `discovered |= value` on two booleans
bool_or(discovered, value) ==
    IF discovered = "True" \/ value = "True" THEN "True" ELSE "False"

\* are_pixels_connected.  Returns the value ("True", "False", or "None" when
\* the except clause ends the call) and already_controlled_pixels, the one
\* list object all the recursive calls append to.
RECURSIVE are_pixels_connected(_, _, _, _, _, _, _)
RECURSIVE connected_loop(_, _, _, _, _, _, _, _, _)
are_pixels_connected(lyr, color, pixel, from_pixel, starting_pixel, target_pixel, already_controlled_pixels) ==
    LET c == get_pixel(lyr, pixel)
    IN  IF c = "raise"
        THEN [value |-> "None", controlled |-> already_controlled_pixels]
        ELSE IF c = color
        THEN IF pixel = target_pixel /\ from_pixel # None
             THEN [value |-> "True", controlled |-> already_controlled_pixels]
             ELSE IF pixel = starting_pixel /\ from_pixel # None
             THEN [value |-> "False", controlled |-> already_controlled_pixels]
             ELSE connected_loop(
                      lyr, color,
                      remove_from_pixel(connected_target_pixels(pixel), 1, from_pixel),
                      1, pixel, starting_pixel, target_pixel, "False",
                      Append(already_controlled_pixels, pixel))
        ELSE [value |-> "False", controlled |-> already_controlled_pixels]

\* lines 155-161: `for pixel_to_control in target_pixels`.  `discovered |= None`
\* raises a TypeError, which the except clause of the enclosing call catches:
\* that call then returns None as well.
connected_loop(lyr, color, target_pixels, i, pixel, starting_pixel, target_pixel, discovered, already_controlled_pixels) ==
    IF i > Len(target_pixels)
    THEN [value |-> discovered, controlled |-> already_controlled_pixels]
    ELSE IF Contains(already_controlled_pixels, target_pixels[i])
    THEN connected_loop(lyr, color, target_pixels, i + 1, pixel, starting_pixel,
                        target_pixel, discovered, already_controlled_pixels)
    ELSE LET r == are_pixels_connected(lyr, color, target_pixels[i], pixel,
                                       starting_pixel, target_pixel,
                                       already_controlled_pixels)
         IN  IF r.value = "None"
             THEN [value |-> "None", controlled |-> r.controlled]
             ELSE connected_loop(lyr, color, target_pixels, i + 1, pixel,
                                 starting_pixel, target_pixel,
                                 bool_or(discovered, r.value), r.controlled)

\* ------------------------------------------- outline extraction (code)

\* range(a, b + 1) if a < b else range(a, b - 1, -1), as a list
direction(a, b) ==
    IF a < b THEN [i \in 1 .. (b - a + 1) |-> a + i - 1]
    ELSE [i \in 1 .. (a - b + 1) |-> a - i + 1]

\* first_discovered_pixel, lines 198-201: the inner loop over one column.
\* It has no break: every match of the column overwrites target_pixel.
RECURSIVE scan_ordinate(_, _, _, _, _, _)
scan_ordinate(lyr, color, x, direction_on_ordinate, j, state) ==
    IF j > Len(direction_on_ordinate) THEN state
    ELSE LET c == get_pixel(lyr, <<x, direction_on_ordinate[j]>>)
         IN  IF c = "raise"
             THEN [raised |-> TRUE, found_pixel |-> state.found_pixel,
                   target_pixel |-> state.target_pixel]
             ELSE scan_ordinate(
                      lyr, color, x, direction_on_ordinate, j + 1,
                      IF c = color
                      THEN [raised |-> FALSE, found_pixel |-> TRUE,
                            target_pixel |-> <<x, direction_on_ordinate[j]>>]
                      ELSE state)

\* first_discovered_pixel, lines 196-205: the outer loop over the columns,
\* left once a column held a match
RECURSIVE scan_abscissa(_, _, _, _, _, _)
scan_abscissa(lyr, color, direction_on_abscissa, i, direction_on_ordinate, state) ==
    IF i > Len(direction_on_abscissa) THEN state
    ELSE LET after == scan_ordinate(lyr, color, direction_on_abscissa[i],
                                    direction_on_ordinate, 1, state)
         IN  IF after.raised \/ after.found_pixel THEN after
             ELSE scan_abscissa(lyr, color, direction_on_abscissa, i + 1,
                                direction_on_ordinate, after)

\* first_discovered_pixel: target_pixel starts as (0, 0) and is what is returned
first_discovered_pixel(lyr, color, x1, y1, x2, y2) ==
    scan_abscissa(lyr, color, direction(x1, x2), 1, direction(y1, y2),
                  [raised |-> FALSE, found_pixel |-> FALSE, target_pixel |-> <<0, 0>>])

\* the pixels of a layer that have the given colour
pixels_of_color(lyr, color) ==
    IF color = OutlineColor THEN lyr.white
    ELSE ((0 .. (lyr.width - 1)) \X (0 .. (lyr.height - 1))) \ lyr.white

\* gimp_image_select_color followed by gimp_selection_bounds (lines 225-226):
\* the box that encloses the pixels of the colour, x2 and y2 being the last
\* column and row of the box as the scans of first_discovered_pixel take them;
\* with nothing selected the bounds are those of the whole layer.
selection_bounds(lyr, color) ==
    LET sel == pixels_of_color(lyr, color)
    IN  IF sel = {}
        THEN [no_null_selection |-> FALSE, x1 |-> 0, y1 |-> 0,
              x2 |-> lyr.width - 1, y2 |-> lyr.height - 1]
        ELSE [no_null_selection |-> TRUE,
              x1 |-> CHOOSE v \in { p[1] : p \in sel } : \A p \in sel : v <= p[1],
              y1 |-> CHOOSE v \in { p[2] : p \in sel } : \A p \in sel : v <= p[2],
              x2 |-> CHOOSE v \in { p[1] : p \in sel } : \A p \in sel : p[1] <= v,
              y2 |-> CHOOSE v \in { p[2] : p \in sel } : \A p \in sel : p[2] <= v]

\* lines 228-241: the four seeds, one scan from each corner of the box
outline_seeds(lyr, color) ==
    LET b == selection_bounds(lyr, color)
    IN  << first_discovered_pixel(lyr, color, b.x1, b.y1, b.x2, b.y2),
           first_discovered_pixel(lyr, color, b.x2, b.y1, b.x1, b.y2),
           first_discovered_pixel(lyr, color, b.x1, b.y2, b.x2, b.y1),
           first_discovered_pixel(lyr, color, b.x2, b.y2, b.x1, b.y1) >>

\* mutant: the check of the seeds is left out
seeds_are_disconnected_never(lyr, color, target_pixels) == FALSE

\* lines 265-271: some pair of different seeds for which are_pixels_connected
\* does not return a true value (`not None` is true as well)
seeds_are_disconnected(lyr, color, target_pixels) ==
    \E i, j \in 1 .. Len(target_pixels) :
        /\ target_pixels[i] # target_pixels[j]
        /\ are_pixels_connected(lyr, color, target_pixels[i], None,
                                target_pixels[i], target_pixels[j], <<>>).value
             # "True"

DisconnectedMessage == "There are disconnected elements in the image."

\* get_outline_pixels_positions (directory version): the list of the outline
\* pixels, or the exception raised
get_outline_pixels_positions(lyr, color) ==
    LET found == outline_seeds(lyr, color)
        target_pixels == [i \in 1 .. Len(found) |-> found[i].target_pixel]
    IN  IF \E i \in 1 .. Len(found) : found[i].raised
        THEN [raised |-> TRUE, message |-> "get_pixel", pixels |-> <<>>]
        ELSE IF seeds_are_disconnected(lyr, color, target_pixels)
        THEN [raised |-> TRUE, message |-> DisconnectedMessage, pixels |-> <<>>]
        ELSE [raised |-> FALSE, message |-> "",
              pixels |-> search_outline_pixels(lyr, color, target_pixels[1],
                                               None, <<>>)]

\* ------------------------------------------------------- layers of the model

\* a square outline: the border pixels of the side x side block at (x, y)
ring_pixels(sq) ==
    { p \in (sq.x .. (sq.x + sq.side - 1)) \X (sq.y .. (sq.y + sq.side - 1)) :
        \/ p[1] = sq.x \/ p[1] = sq.x + sq.side - 1
        \/ p[2] = sq.y \/ p[2] = sq.y + sq.side - 1 }

layer_of(w, h, sqs) ==
    [width |-> w, height |-> h,
     white |-> UNION { ring_pixels(sqs[i]) : i \in 1 .. Len(sqs) }]

\* the squares of side 1 .. maxside on a w x h raster that keep `margin`
\* pixels from every edge
Squares(w, h, maxside, margin) ==
    { sq \in [x : margin .. (w - 1 - margin),
              y : margin .. (h - 1 - margin),
              side : 1 .. maxside] :
        /\ sq.x + sq.side - 1 <= w - 1 - margin
        /\ sq.y + sq.side - 1 <= h - 1 - margin }

\* a total order on squares, to list every pair of squares once
SquareKey(w, h, sq) == (sq.side * w + sq.x) * h + sq.y

\* no square, one square, or two different squares
ShapeLists(w, h, maxside, margin) ==
    {<<>>}
    \cup { <<sq>> : sq \in Squares(w, h, maxside, margin) }
    \cup { <<a, b>> : <<a, b>> \in
             { ab \in Squares(w, h, maxside, margin) \X Squares(w, h, maxside, margin) :
                 SquareKey(w, h, ab[1]) < SquareKey(w, h, ab[2]) } }

\* ------------------------------------------------ the batch run (code)

Header == "Reference image;Deviated image;Distance"
NoLayer == layer_of(BatchW, BatchH, <<>>)

\* hausdorff_distance has not been called
BatchIdle ==
    /\ pc = "start"
    /\ numbers_of_images = 0
    /\ index = 0
    /\ csv = <<>>
    /\ images = {}
    /\ ref_layer = NoLayer
    /\ dev_layer = NoLayer
    /\ ref_layer_outline_pixels_positions = <<>>
    /\ dev_layer_outline_pixels_positions = <<>>
    /\ messages = <<>>

\* the layers found in the image files: no shape, a 3x3 square outline, a 2x2
\* square, and two single pixels apart from each other
BatchShapes ==
    { <<>>,
      <<[x |-> 1, y |-> 1, side |-> 3]>>,
      <<[x |-> 1, y |-> 1, side |-> 2]>>,
      <<[x |-> 1, y |-> 1, side |-> 1], [x |-> 3, y |-> 3, side |-> 1]>> }

\* "A%d;B%d;%s\n" % (index, index, e.message) and
\* "A%d;B%d;%f\n" % (index, index, distance)
csv_row(i, format, value) ==
    [reference |-> i, deviated |-> i, format |-> format, value |-> value]

\* draw_line, lines 299-314: every point of both pairs is subscripted, which
\* raises a TypeError on None
draw_line_raises(target_points, other_points) ==
    \E k \in 1 .. 2 : target_points[k] = None \/ other_points[k] = None

\* lines 415-417: the except clause around the whole run
unexpected_error ==
    /\ pc' = "done"
    /\ messages' = messages \o <<"Unexpected error",
                                 "It was not possible to calculate the distance.">>

\* mutant: the loop is left after the pair at hand
next_pair_break ==
    /\ pc' = "done"
    /\ UNCHANGED <<index, messages>>

\* line 343: `for index in range(1, numbers_of_images + 1)` takes its next value
next_pair ==
    /\ IF index < numbers_of_images
       THEN pc' = "load" /\ index' = index + 1
       ELSE pc' = "done" /\ UNCHANGED index
    /\ UNCHANGED messages

\* lines 336-343: the images are counted, results.csv is created with its
\* header line, and the loop is entered.  os.listdir and open may raise.
Start ==
    /\ pc = "start"
    /\ \E listed \in BOOLEAN, opened \in BOOLEAN, n \in 0 .. MaxPairs :
         IF ~listed
         THEN unexpected_error /\ UNCHANGED <<numbers_of_images, index, csv>>
         ELSE IF ~opened
         THEN /\ numbers_of_images' = n
              /\ unexpected_error /\ UNCHANGED <<index, csv>>
         ELSE /\ numbers_of_images' = n
              /\ csv' = <<Header>>
              /\ IF n >= 1 THEN pc' = "load" /\ index' = 1
                 ELSE pc' = "done" /\ UNCHANGED index
              /\ UNCHANGED messages
    /\ UNCHANGED <<images, ref_layer, dev_layer,
                   ref_layer_outline_pixels_positions,
                   dev_layer_outline_pixels_positions, call_vars>>

\* lines 345-350: the reference image and the deviated layer are loaded.
\* Either load may raise.
Load ==
    /\ pc = "load"
    /\ \E loaded_a \in BOOLEAN, loaded_b \in BOOLEAN,
          a \in BatchShapes, b \in BatchShapes :
         IF ~loaded_a
         THEN unexpected_error /\ UNCHANGED <<images, ref_layer, dev_layer>>
         ELSE IF ~loaded_b
         THEN /\ images' = images \cup {index}
              /\ ref_layer' = layer_of(BatchW, BatchH, a)
              /\ unexpected_error /\ UNCHANGED dev_layer
         ELSE /\ images' = images \cup {index}
              /\ ref_layer' = layer_of(BatchW, BatchH, a)
              /\ dev_layer' = layer_of(BatchW, BatchH, b)
              /\ pc' = "outline_ref"
              /\ UNCHANGED messages
    /\ UNCHANGED <<numbers_of_images, index, csv,
                   ref_layer_outline_pixels_positions,
                   dev_layer_outline_pixels_positions, call_vars>>

\* lines 352-360: the outline of the reference layer; on an exception the row
\* with its message is written and the loop continues
OutlineRef ==
    /\ pc = "outline_ref"
    /\ LET r == get_outline_pixels_positions(ref_layer, OutlineColor)
       IN  IF r.raised
           THEN /\ csv' = Append(csv, csv_row(index, "%s", r.message))
                /\ next_pair
                /\ UNCHANGED ref_layer_outline_pixels_positions
           ELSE /\ ref_layer_outline_pixels_positions' = r.pixels
                /\ pc' = "outline_dev"
                /\ UNCHANGED <<csv, index, messages>>
    /\ UNCHANGED <<numbers_of_images, images, ref_layer, dev_layer,
                   dev_layer_outline_pixels_positions, call_vars>>

\* lines 362-370: the same for the deviated layer
OutlineDev ==
    /\ pc = "outline_dev"
    /\ LET r == get_outline_pixels_positions(dev_layer, OutlineColor)
       IN  IF r.raised
           THEN /\ csv' = Append(csv, csv_row(index, "%s", r.message))
                /\ next_pair
                /\ UNCHANGED dev_layer_outline_pixels_positions
           ELSE /\ dev_layer_outline_pixels_positions' = r.pixels
                /\ pc' = "score"
                /\ UNCHANGED <<csv, index, messages>>
    /\ UNCHANGED <<numbers_of_images, images, ref_layer, dev_layer,
                   ref_layer_outline_pixels_positions, call_vars>>

\* lines 372-414: the distance, the drawing, the saved image, the row with the
\* distance, and the deletion of the image.  draw_line raises on a None point;
\* the calls that merge, write the text and save the file may raise.
Score ==
    /\ pc = "score"
    /\ LET h == hausdorff_distance_directory(ref_layer_outline_pixels_positions,
                                             dev_layer_outline_pixels_positions)
       IN  \E saved \in BOOLEAN :
             IF draw_line_raises(h.target_points, h.other_points) \/ ~saved
             THEN unexpected_error /\ UNCHANGED <<csv, index, images>>
             ELSE /\ csv' = Append(csv, csv_row(index, "%f", h.distance))
                  /\ images' = images \ {index}
                  /\ next_pair
    /\ UNCHANGED <<numbers_of_images, ref_layer, dev_layer,
                   ref_layer_outline_pixels_positions,
                   dev_layer_outline_pixels_positions, call_vars>>

Init ==
    /\ ref_list = <<>> /\ dev_list = <<>>
    /\ shapes = <<>>
    /\ layer = NoLayer
    /\ ret = NoCall
    /\ BatchIdle

Next ==
    \/ Start
    \/ Load
    \/ OutlineRef
    \/ OutlineDev
    \/ Score

Spec == Init /\ [][Next]_vars

\* ------------------------------------- specification of the distance calls

Points == (0 .. MaxCoord) \X (0 .. MaxCoord)

\* the pairs of point lists with at most MaxPoints points in all
ListPairs ==
    UNION { [1 .. a -> Points] \X [1 .. (n - a) -> Points] :
            <<a, n>> \in { an \in (0 .. MaxPoints) \X (0 .. MaxPoints) : an[1] <= an[2] } }

DistInit ==
    /\ \E lp \in ListPairs : ref_list = lp[1] /\ dev_list = lp[2]
    /\ shapes = <<>>
    /\ layer = layer_of(RasterW, RasterH, <<>>)
    /\ ret = NoCall
    /\ BatchIdle

CallGetMaximumDistanceDirectory ==
    /\ ret = NoCall
    /\ ret' = [op |-> "get_maximum_distance_directory",
               val |-> get_maximum_distance_directory(ref_list, dev_list)]
    /\ UNCHANGED <<ref_list, dev_list, shapes, layer, batch_vars>>

CallGetMaximumDistanceSingle ==
    /\ ret = NoCall
    /\ ret' = [op |-> "get_maximum_distance_single",
               val |-> get_maximum_distance_single(ref_list, dev_list)]
    /\ UNCHANGED <<ref_list, dev_list, shapes, layer, batch_vars>>

CallHausdorffDirectory ==
    /\ ret = NoCall
    /\ ret' = [op |-> "hausdorff_distance_directory",
               val |-> hausdorff_distance_directory(ref_list, dev_list)]
    /\ UNCHANGED <<ref_list, dev_list, shapes, layer, batch_vars>>

CallHausdorffSingle ==
    /\ ret = NoCall
    /\ ret' = [op |-> "hausdorff_distance_single",
               val |-> hausdorff_distance_single(ref_list, dev_list)]
    /\ UNCHANGED <<ref_list, dev_list, shapes, layer, batch_vars>>

DistNext ==
    \/ CallGetMaximumDistanceDirectory
    \/ CallGetMaximumDistanceSingle
    \/ CallHausdorffDirectory
    \/ CallHausdorffSingle

DistSpec == DistInit /\ [][DistNext]_vars

\* --------------------------------------- specification of the raster calls

\* every layer with at most two square outlines, anywhere on the raster
RasterInit ==
    /\ ref_list = <<>> /\ dev_list = <<>>
    /\ shapes \in ShapeLists(RasterW, RasterH, MaxSide, 0)
    /\ layer = layer_of(RasterW, RasterH, shapes)
    /\ ret = NoCall
    /\ BatchIdle

\* search_outline_pixels(layer, color, seed, None, []) on an outline pixel
CallSearchOutlinePixels ==
    /\ ret = NoCall
    /\ \E seed \in layer.white :
         ret' = [op |-> "search_outline_pixels", seed |-> seed,
                 val |-> search_outline_pixels(layer, OutlineColor, seed, None, <<>>)]
    /\ UNCHANGED <<ref_list, dev_list, shapes, layer, batch_vars>>

\* get_outline_pixels_positions(image, layer, color, fill_color)
CallGetOutlinePixelsPositions ==
    /\ ret = NoCall
    /\ ret' = [op |-> "get_outline_pixels_positions",
               val |-> get_outline_pixels_positions(layer, OutlineColor)]
    /\ UNCHANGED <<ref_list, dev_list, shapes, layer, batch_vars>>

RasterNext ==
    \/ CallSearchOutlinePixels
    \/ CallGetOutlinePixelsPositions

RasterSpec == RasterInit /\ [][RasterNext]_vars

\* every layer with at most two square outlines that keep off the raster edge
ConnInit ==
    /\ ref_list = <<>> /\ dev_list = <<>>
    /\ shapes \in ShapeLists(ConnW, ConnH, ConnSide, 1)
    /\ layer = layer_of(ConnW, ConnH, shapes)
    /\ ret = NoCall
    /\ BatchIdle

\* are_pixels_connected(layer, color, s, None, s, t, []) on two outline pixels
CallArePixelsConnected ==
    /\ ret = NoCall
    /\ \E s, t \in layer.white :
         /\ s # t
         /\ ret' = [op |-> "are_pixels_connected", from |-> s, to |-> t,
                    val |-> are_pixels_connected(layer, OutlineColor, s, None,
                                                 s, t, <<>>).value]
    /\ UNCHANGED <<ref_list, dev_list, shapes, layer, batch_vars>>

ConnNext == CallArePixelsConnected

ConnSpec == ConnInit /\ [][ConnNext]_vars

\* ------------------------------- specification of the small-raster calls

\* every layer with at most two square outlines, anywhere on a small raster
SmallInit ==
    /\ ref_list = <<>> /\ dev_list = <<>>
    /\ shapes \in ShapeLists(SmallW, SmallH, SmallSide, 0)
    /\ layer = layer_of(SmallW, SmallH, shapes)
    /\ ret = NoCall
    /\ BatchIdle

\* lines 231-241: the four calls of first_discovered_pixel, by their order
seed_call(lyr, color, order) ==
    LET b == selection_bounds(lyr, color)
    IN  IF order = 1
        THEN first_discovered_pixel(lyr, color, b.x1, b.y1, b.x2, b.y2)
        ELSE IF order = 2
        THEN first_discovered_pixel(lyr, color, b.x2, b.y1, b.x1, b.y2)
        ELSE IF order = 3
        THEN first_discovered_pixel(lyr, color, b.x1, b.y2, b.x2, b.y1)
        ELSE first_discovered_pixel(lyr, color, b.x2, b.y2, b.x1, b.y1)

\* first_discovered_pixel as get_outline_pixels_positions calls it
CallFirstDiscoveredPixel ==
    /\ ret = NoCall
    /\ \E order \in 1 .. 4 :
         ret' = [op |-> "first_discovered_pixel", order |-> order,
                 val |-> seed_call(layer, OutlineColor, order)]
    /\ UNCHANGED <<ref_list, dev_list, shapes, layer, batch_vars>>

\* search_pixel(layer, color, seed, []) on an outline pixel
CallSearchPixel ==
    /\ ret = NoCall
    /\ \E seed \in layer.white :
         ret' = [op |-> "search_pixel", seed |-> seed,
                 val |-> search_pixel(layer, OutlineColor, seed, <<>>)]
    /\ UNCHANGED <<ref_list, dev_list, shapes, layer, batch_vars>>

SmallNext ==
    \/ CallFirstDiscoveredPixel
    \/ CallSearchPixel
    \/ CallArePixelsConnected
    \/ CallGetOutlinePixelsPositions

SmallSpec == SmallInit /\ [][SmallNext]_vars

\* ------------------------------------------------- mathematical yardsticks

Range(s) == { s[i] : i \in 1 .. Len(s) }
SetMax(S) == CHOOSE m \in S : \A n \in S : n <= m
SetMin(S) == CHOOSE m \in S : \A n \in S : m <= n
NearestDistance(p, B) == SetMin({ euclidean_distance(p, q) : q \in Range(B) })
Directed(A, B) == SetMax({ NearestDistance(p, B) : p \in Range(A) })

NonEmptyLists == ref_list # <<>> /\ dev_list # <<>>
IsDirectedCall ==
    ret.op \in {"get_maximum_distance_directory", "get_maximum_distance_single"}
IsHausdorffCall ==
    ret.op \in {"hausdorff_distance_directory", "hausdorff_distance_single"}

\* ------------------------------------------------------------------ claims

\* C1: for non-empty point lists, the distance returned by get_maximum_distance
\* (directory version and single version alike) is the maximum over the points
\* p of the first list of the minimum over the points q of the second list of
\* the (squared) euclidean distance of p and q.
C1_DirectedIsMaxMin ==
    (IsDirectedCall /\ NonEmptyLists)
        => ret.val.distance = Directed(ref_list, dev_list)

\* C1 witness: a directory call on two reference points whose nearest
\* distances differ, the larger one belonging to the first point.
C1_Witness ==
    /\ ret.op = "get_maximum_distance_directory"
    /\ Len(ref_list) = 2 /\ Len(dev_list) = 1
    /\ NearestDistance(ref_list[1], dev_list) > NearestDistance(ref_list[2], dev_list)
    /\ ret.val.distance = NearestDistance(ref_list[1], dev_list)

\* C2: for non-empty point lists, the distance hausdorff_distance reports is
\* the larger of the two directed distances, is not negative, and is the same
\* when the two lists change places.
C2_HausdorffIsSymmetricMax ==
    (IsHausdorffCall /\ NonEmptyLists) =>
        /\ ret.val.distance
             = SetMax({Directed(ref_list, dev_list), Directed(dev_list, ref_list)})
        /\ ret.val.distance >= 0
        /\ ret.op = "hausdorff_distance_directory" =>
             ret.val.distance = hausdorff_distance_directory(dev_list, ref_list).distance
        /\ ret.op = "hausdorff_distance_single" =>
             ret.val.distance = hausdorff_distance_single(dev_list, ref_list).distance

\* C2 witness: a directory call where the two directed distances differ and
\* the larger one is the one of the second list.
C2_Witness ==
    /\ ret.op = "hausdorff_distance_directory"
    /\ NonEmptyLists
    /\ Directed(ref_list, dev_list) < Directed(dev_list, ref_list)
    /\ ret.val.distance = Directed(dev_list, ref_list)

\* C3 (as claimed): for non-empty point lists, the triple (d, p, q) returned by
\* the directory version's get_maximum_distance has p in the first list, q in
\* the second list, q a nearest point of the second list to p, and the
\* distance of p and q equal to d.
C3_WitnessPointsAreMembers ==
    (ret.op = "get_maximum_distance_directory" /\ NonEmptyLists) =>
        /\ ret.val.point_one \in Range(ref_list)
        /\ ret.val.point_two \in Range(dev_list)
        /\ euclidean_distance(ret.val.point_one, ret.val.point_two)
             = NearestDistance(ret.val.point_one, dev_list)
        /\ euclidean_distance(ret.val.point_one, ret.val.point_two) = ret.val.distance

\* the 4-neighbours of a pixel
Adjacent(p, q) ==
    \/ p[1] = q[1] /\ (p[2] = q[2] + 1 \/ q[2] = p[2] + 1)
    \/ p[2] = q[2] /\ (p[1] = q[1] + 1 \/ q[1] = p[1] + 1)

\* the pixels of S joined to the pixels of `reached` by 4-connected paths in S
RECURSIVE Grow(_, _)
Grow(S, reached) ==
    LET more == { q \in S \ reached : \E p \in reached : Adjacent(p, q) }
    IN  IF more = {} THEN reached ELSE Grow(S, reached \cup more)
Component(S, seed) == Grow(S, {seed})

TouchesEdge(lyr) ==
    \E p \in lyr.white : \/ p[1] = 0 \/ p[1] = lyr.width - 1
                         \/ p[2] = 0 \/ p[2] = lyr.height - 1

\* two square outlines with no outline pixel of one on or next to the other
Separate(a, b) ==
    \A p \in ring_pixels(a) : \A q \in ring_pixels(b) : p # q /\ ~Adjacent(p, q)

\* C4: search_outline_pixels(layer, color, seed, None, []) on a seed of the
\* outline colour returns exactly the outline pixels 4-connected to the seed,
\* also when the outline touches the raster edge.
C4_TraceIsComponent ==
    ret.op = "search_outline_pixels"
        => Range(ret.val) = Component(layer.white, ret.seed)

\* C4 witness: a single 3x3 square outline in the corner of the raster, traced
\* to its 8 border pixels from a seed that is not the corner.
C4_Witness ==
    /\ ret.op = "search_outline_pixels"
    /\ shapes = <<[x |-> 0, y |-> 0, side |-> 3]>>
    /\ ret.seed = <<2, 1>>
    /\ Cardinality(Range(ret.val)) = 8

\* C5: on a raster whose outline does not touch the edge, for two different
\* outline pixels s and t, are_pixels_connected(layer, color, s, None, s, t, [])
\* returns True when a 4-connected path of outline pixels joins s and t and
\* False when none does.
C5_ConnectedIffPath ==
    (ret.op = "are_pixels_connected" /\ ~TouchesEdge(layer)) =>
        ret.val = IF ret.to \in Component(layer.white, ret.from)
                  THEN "True" ELSE "False"

\* C5 witness: two separate 3x3 square outlines, a seed on each: False.
C5_Witness ==
    /\ ret.op = "are_pixels_connected"
    /\ Len(shapes) = 2
    /\ shapes[1].side = 3 /\ shapes[2].side = 3
    /\ Separate(shapes[1], shapes[2])
    /\ ret.from \in ring_pixels(shapes[1])
    /\ ret.to \in ring_pixels(shapes[2])
    /\ ret.val = "False"

\* C6 (as claimed): on a layer with two separate square outlines,
\* get_outline_pixels_positions raises the disconnected-elements fault.
C6_TwoSquaresAreRejected ==
    ( /\ ret.op = "get_outline_pixels_positions"
      /\ Len(shapes) = 2
      /\ shapes[1].side >= 2 /\ shapes[2].side >= 2
      /\ Separate(shapes[1], shapes[2]) )
        => (ret.val.raised /\ ret.val.message = DisconnectedMessage)

\* C7 (as claimed): on a layer without a pixel of the target colour,
\* get_outline_pixels_positions raises instead of returning a pixel list.
C7_EmptyLayerIsRejected ==
    (ret.op = "get_outline_pixels_positions" /\ layer.white = {})
        => ret.val.raised

\* C8 (as claimed): get_maximum_distance called with an empty first list or an
\* empty second list raises; it returns no distance value.
C8_EmptyInputIsRejected ==
    (IsDirectedCall /\ ~NonEmptyLists) => ret.val.raised

\* the rows of results.csv after the header line that belong to pair i
RowsOf(i) == { k \in 2 .. Len(csv) : csv[k].reference = i }

\* C9 (as claimed): when the batch run over pairs 1..N has ended, results.csv
\* holds exactly one row for each of the N pairs, whatever fault occurred
\* while a pair was processed.
C9_OneRowPerPair ==
    (pc = "done" /\ csv # <<>>) =>
        \A i \in 1 .. numbers_of_images : Cardinality(RowsOf(i)) = 1

\* results.csv starts with the header line and its rows are in strictly
\* increasing pair index (so no pair has two rows)
HeaderThenIncreasingRows ==
    csv # <<>> =>
        /\ csv[1] = Header
        /\ \A k \in 2 .. Len(csv) :
             /\ csv[k].reference \in 1 .. index
             /\ csv[k].deviated = csv[k].reference
             /\ k < Len(csv) => csv[k].reference < csv[k + 1].reference

\* get_outline_pixels_positions raises in the step about to be taken
OutlineRaises ==
    \/ /\ pc = "outline_ref"
       /\ get_outline_pixels_positions(ref_layer, OutlineColor).raised
    \/ /\ pc = "outline_dev"
       /\ get_outline_pixels_positions(dev_layer, OutlineColor).raised

OutlineMessage ==
    IF pc = "outline_ref"
    THEN get_outline_pixels_positions(ref_layer, OutlineColor).message
    ELSE get_outline_pixels_positions(dev_layer, OutlineColor).message

\* a step only ever adds one line at the end of results.csv; a step in which
\* get_outline_pixels_positions raises adds the row of the pair at hand with
\* the message in the distance field and goes on with the next pair
RowsAreAppended ==
    /\ csv' # csv => csv' = Append(csv, csv'[Len(csv')])
    /\ OutlineRaises =>
         /\ csv' = Append(csv, csv_row(index, "%s", OutlineMessage))
         /\ IF index < numbers_of_images
            THEN pc' = "load" /\ index' = index + 1
            ELSE pc' = "done"

\* C10: results.csv starts with the header line, followed by rows in strictly
\* increasing pair index, at most one per pair; when
\* get_outline_pixels_positions raises for the reference or the deviated layer
\* of pair i, the row written for i carries the message, no distance row is
\* written for i, and the run goes on with pair i + 1.
C10_FaultRowAndContinue ==
    []HeaderThenIncreasingRows /\ [][RowsAreAppended]_vars

\* C10 witness: the first pair got the row with the disconnected-elements
\* message and the second pair was then scored.
C10_Witness ==
    /\ Len(csv) = 3
    /\ csv[2].reference = 1 /\ csv[2].format = "%s"
    /\ csv[2].value = DisconnectedMessage
    /\ csv[3].reference = 2 /\ csv[3].format = "%f"

\* p is met before q by the scan of the given order: x is the outer loop,
\* ascending in orders 1 and 3; y is the inner loop, ascending in orders 1 and 2
MetBefore(order, p, q) ==
    \/ p[1] # q[1] /\ (IF order \in {1, 3} THEN p[1] < q[1] ELSE p[1] > q[1])
    \/ p[1] = q[1] /\ (IF order \in {1, 2} THEN p[2] < q[2] ELSE p[2] > q[2])

FirstMet(order, S) == CHOOSE p \in S : \A q \in S \ {p} : MetBefore(order, p, q)

\* C11 (as claimed): for each of the four scan orders, first_discovered_pixel
\* returns the first pixel of the outline colour the scan meets within the
\* bounding box, whenever the box holds such a pixel.
C11_FirstPixelOfScan ==
    (ret.op = "first_discovered_pixel" /\ layer.white # {})
        => ret.val.target_pixel = FirstMet(ret.order, layer.white)

\* the same raster with one more row and column of the filling colour on
\* every side, and a pixel of the raster as a pixel of the padded one
Padded(lyr) ==
    [width |-> lyr.width + 2, height |-> lyr.height + 2,
     white |-> { <<p[1] + 1, p[2] + 1>> : p \in lyr.white }]
InPadded(p) == <<p[1] + 1, p[2] + 1>>

\* the outline pixels of the layer form one 4-connected component
OneComponent(lyr) ==
    /\ lyr.white # {}
    /\ \A p \in lyr.white : Component(lyr.white, p) = lyr.white

\* C12 (as claimed): a lookup outside the raster counts as a pixel that is not
\* of the outline colour: for two different seeds joined by a path of outline
\* pixels are_pixels_connected returns True also when the outline touches the
\* raster edge, as it does on the padded raster, and
\* get_outline_pixels_positions raises no disconnected-elements fault for a
\* single connected outline.
C12_EdgeLookupIsNotOutline ==
    /\ (ret.op = "are_pixels_connected"
          /\ ret.to \in Component(layer.white, ret.from)) =>
         /\ ret.val = "True"
         /\ ret.val = are_pixels_connected(
                          Padded(layer), OutlineColor, InPadded(ret.from), None,
                          InPadded(ret.from), InPadded(ret.to), <<>>).value
    /\ (ret.op = "get_outline_pixels_positions" /\ OneComponent(layer)) =>
         ~(ret.val.raised /\ ret.val.message = DisconnectedMessage)

\* C13 (as claimed): search_pixel of the single version explores the four
\* different 4-connected neighbours of every outline pixel it reaches, so from
\* a seed of the outline colour it returns the whole 4-connected component of
\* the seed.
C13_SearchPixelIsComponent ==
    ret.op = "search_pixel"
        => /\ Cardinality(Range(search_pixel_target_pixels(ret.seed))) = 4
           /\ Range(ret.val) = Component(layer.white, ret.seed)

\* the batch run has not fallen into its outer `except` clause
NoUnexpectedError == ~Contains(messages, "Unexpected error")

\* C14 (as claimed): in the batch run every image loaded for pair i is deleted
\* before the image of pair i+1 is loaded, on the success path and on the
\* paths where the outline extraction raises: at most one loaded image
\* exists at any time, none when the next pair is about to be loaded, and
\* none when the run ends.
C14_LoadedImageIsDeleted ==
    NoUnexpectedError =>
        /\ Cardinality(images) <= 1
        /\ pc = "load" => images = {}
        /\ pc = "done" => images = {}

====
